---- MODULE Spec2Model ----
(***************************************************************************)
(* The /analyze handler of the SEO analyzer: link extraction and           *)
(* classification (src/index.js and src/unnamed/part_000) and the          *)
(* broken-link verification of src/unnamed/part_000.                       *)
(*                                                                         *)
(* A URL string is modelled by the record of the components the legacy     *)
(* `url` module splits it into; an href by the form it is written in.      *)
(* A rel attribute is the sequence of its characters, so that              *)
(* String.prototype.includes is a real substring search.                   *)
(***************************************************************************)
EXTENDS Integers, Sequences, FiniteSets, TLC

\* ------------------------------------------------------------------ bounds
\* Most anchors on the analysed page (verification runs).
MaxAnchors == 2
\* Most anchors on the analysed page (link-extraction runs).
MaxLinkAnchors == 2
\* Most anchors on the analysed page (response runs).
MaxResponseAnchors == 2

\* ------------------------------------------------- constants of the program
\* part_000:100  maxContentLength: 2000
maxContentLength == 2000
\* part_000:102  maxRedirects: 5
maxRedirects == 5

\* ------------------------------------------------------------- URL strings
\* decodeURIComponent throws URIError on this userinfo ("%" alone).
BadAuth == "%"

Url(protocol, auth, hostname, port, path) ==
    [protocol |-> protocol, auth |-> auth, hostname |-> hostname,
     port |-> port, path |-> path]

\* The host component as url.parse reports it: hostname plus ":port".
HostOf(u) == IF u.port = "" THEN u.hostname ELSE u.hostname \o ":" \o u.port

\* urlParser.parse throws when the authority carries userinfo that
\* decodeURIComponent rejects.
ParseThrows(u) == u.auth = BadAuth

\* urlParser.parse(u) of an absolute URL it accepts.
parse(u) ==
    [protocol |-> u.protocol, host |-> HostOf(u), hostname |-> u.hostname,
     port |-> u.port, pathname |-> u.path]

\* const baseUrl = `${parsedUrl.protocol}//${parsedUrl.host}`
baseUrlOf(pageUrl) ==
    Url(pageUrl.protocol, "", pageUrl.hostname, pageUrl.port, "")

\* ------------------------------------------------------------------- hrefs
\* form "none"    : the anchor has no href, or an empty one
\* form "path"    : "/a"                       (relative to the page)
\* form "abs"     : "proto://[auth@]host[:port]/path"
\* form "noslash" : "proto:%@b/path"  (a scheme, no "//": url.parse reads
\*                  everything after the scheme as a path)
Href(form, protocol, auth, hostname, port, path) ==
    [form |-> form, protocol |-> protocol, auth |-> auth,
     hostname |-> hostname, port |-> port, path |-> path]

NoHref == Href("none", "", "", "", "", "")
PathHref(p) == Href("path", "", "", "", "", p)
AbsHref(u) == Href("abs", u.protocol, u.auth, u.hostname, u.port, u.path)
NoSlashHref(protocol, p) == Href("noslash", protocol, BadAuth, "b", "", p)

\* urlParser.resolve parses the href first: it throws on an absolute href
\* whose userinfo does not decode.
ResolveThrows(href) == href.form = "abs" /\ href.auth = BadAuth

\* urlParser.resolve(baseUrl, href) when it returns.  A "noslash" href of
\* the page's own scheme is a relative path; of another scheme, its first
\* path segment becomes the authority of the result, unvalidated.
resolve(base, href) ==
    CASE href.form = "path" ->
           Url(base.protocol, "", base.hostname, base.port, href.path)
      [] href.form = "abs" ->
           Url(href.protocol, href.auth, href.hostname, href.port, href.path)
      [] href.form = "noslash" ->
           IF href.protocol = base.protocol
           THEN Url(base.protocol, "", base.hostname, base.port,
                    "/" \o href.auth \o "@" \o href.hostname \o href.path)
           ELSE Url(href.protocol, href.auth, href.hostname, href.port,
                    href.path)

\* ---------------------------------------------------------- rel attributes
nofollow == <<"n", "o", "f", "o", "l", "l", "o", "w">>
ugc == <<"u", "g", "c">>
sponsored == <<"s", "p", "o", "n", "s", "o", "r", "e", "d">>

\* String.prototype.includes
includes(s, sub) ==
    \E i \in 0..(Len(s) - Len(sub)) : SubSeq(s, i + 1, i + Len(sub)) = sub

\* const rel = $(el).attr('rel') || '';
relOf(el) == IF el.hasRel THEN el.rel ELSE <<>>

\* A test that knows only 'nofollow'.
isNofollowOnly(rel) == includes(rel, nofollow)

\* rel.includes('nofollow') || rel.includes('ugc') || rel.includes('sponsored')
isNofollowRel(rel) ==
    includes(rel, nofollow) \/ includes(rel, ugc) \/ includes(rel, sponsored)

\* A comparison of hostname instead of host: the port is ignored.
isInternalByHostname(parsedHref, parsedUrl) ==
    parsedHref.protocol = parsedUrl.protocol
    /\ parsedHref.hostname = parsedUrl.hostname

\* parsedHref.protocol === parsedUrl.protocol && parsedHref.host === parsedUrl.host
isInternal(parsedHref, parsedUrl) ==
    parsedHref.protocol = parsedUrl.protocol /\ parsedHref.host = parsedUrl.host

\* --------------------------------------------------------- link extraction
NoLinks ==
    [allLinks |-> <<>>, internalLinks |-> <<>>,
     externalDofollowLinks |-> <<>>, externalNofollowLinks |-> <<>>]

\* The body of the try block once resolve has returned absoluteHref.
classifyLink(el, absoluteHref, parsedUrl, acc) ==
    LET pushed == [acc EXCEPT !.allLinks = Append(@, absoluteHref)] IN
    IF ParseThrows(absoluteHref) THEN pushed
    ELSE IF isInternal(parse(absoluteHref), parsedUrl)
         THEN [pushed EXCEPT !.internalLinks = Append(@, absoluteHref)]
    ELSE IF isNofollowRel(relOf(el))
         THEN [pushed EXCEPT !.externalNofollowLinks = Append(@, absoluteHref)]
    ELSE [pushed EXCEPT !.externalDofollowLinks = Append(@, absoluteHref)]

\* The callback of $('a').each for one anchor.
anchorCallback(el, pageUrl, acc) ==
    IF el.href.form = "none" THEN acc
    ELSE IF ResolveThrows(el.href) THEN acc
    ELSE classifyLink(el, resolve(baseUrlOf(pageUrl), el.href),
                      parse(pageUrl), acc)

RECURSIVE eachAnchor(_, _, _)
eachAnchor(els, pageUrl, acc) ==
    IF els = <<>> THEN acc
    ELSE eachAnchor(Tail(els), pageUrl, anchorCallback(Head(els), pageUrl, acc))

extractLinks(els, pageUrl) == eachAnchor(els, pageUrl, NoLinks)

\* [...new Set(allLinks)]: the first occurrence of every element, in order.
RECURSIVE uniqueOf(_, _)
uniqueOf(links, seen) ==
    IF links = <<>> THEN <<>>
    ELSE IF Head(links) \in seen THEN uniqueOf(Tail(links), seen)
    ELSE <<Head(links)>> \o uniqueOf(Tail(links), seen \cup {Head(links)})

\* No deduplication: every collected link is checked.
everyLink(links) == links

uniqueLinks(links) == uniqueOf(links, {})

\* ------------------------------------------------------------- the network
\* What the network does to one GET: a transport fault (by its error code),
\* or a final response with a status, a body size and the redirects that
\* led to it.
Net(fault, status, bytes, redirects) ==
    [fault |-> fault, status |-> status, bytes |-> bytes,
     redirects |-> redirects]

Responds(status, bytes, redirects) == Net("none", status, bytes, redirects)
Fails(fault) == Net(fault, 0, 0, 0)

\* Transport faults axios reports with error.request set.
FaultCodes ==
    {"ECONNABORTED", "ETIMEDOUT", "ENOTFOUND", "ECONNREFUSED", "ERR_NETWORK",
     "ECONNRESET", "NOCODE"}

LinkNets ==
    {Responds(200, 100, 0), Responds(200, 5000, 0), Responds(200, 100, 5),
     Responds(200, 100, 6), Responds(304, 100, 0), Responds(404, 100, 0),
     Responds(404, 5000, 0), Responds(503, 100, 0)}
    \cup {Fails(c) : c \in FaultCodes}
    \cup {Fails("SETUP"), Fails("NONAXIOS")}

\* validateStatus: status >= 200 && status < 500
validateStatus(status) == status >= 200 /\ status < 500

\* What axios.get(link, {...}) settles with.
Settled(resolved, isAxiosError, hasResponse, status, hasRequest, code, message) ==
    [resolved |-> resolved, isAxiosError |-> isAxiosError,
     hasResponse |-> hasResponse, status |-> status,
     hasRequest |-> hasRequest, code |-> code, message |-> message]

\* axios with the options of the link check: a fault rejects without a
\* response; so do a redirect chain longer than maxRedirects and a body
\* longer than maxContentLength; a status validateStatus refuses rejects
\* with the response attached.
axiosGet(net) ==
    CASE net.fault = "NONAXIOS" ->
           Settled(FALSE, FALSE, FALSE, 0, FALSE, "", "not an axios error")
      [] net.fault = "SETUP" ->
           Settled(FALSE, TRUE, FALSE, 0, FALSE, "ERR_BAD_REQUEST",
                   "Unsupported protocol")
      [] net.fault = "NOCODE" ->
           Settled(FALSE, TRUE, FALSE, 0, TRUE, "", "socket closed")
      [] net.fault \in FaultCodes \ {"NOCODE"} ->
           Settled(FALSE, TRUE, FALSE, 0, TRUE, net.fault, "transport fault")
      [] net.fault = "none" /\ net.redirects > maxRedirects ->
           Settled(FALSE, TRUE, FALSE, 0, TRUE, "ERR_FR_TOO_MANY_REDIRECTS",
                   "Maximum number of redirects exceeded")
      [] net.fault = "none" /\ net.redirects <= maxRedirects
           /\ net.bytes > maxContentLength ->
           Settled(FALSE, TRUE, FALSE, 0, TRUE, "ERR_BAD_RESPONSE",
                   "maxContentLength size of 2000 exceeded")
      [] net.fault = "none" /\ net.redirects <= maxRedirects
           /\ net.bytes <= maxContentLength /\ validateStatus(net.status) ->
           Settled(TRUE, FALSE, TRUE, net.status, TRUE, "", "")
      [] OTHER ->
           Settled(FALSE, TRUE, TRUE, net.status, TRUE, "ERR_BAD_RESPONSE",
                   "Request failed")

\* ----------------------------------------------------- link check outcomes
\* The status of a record: an HTTP status code or a label.
StatusCode(n) == [code |-> n, label |-> ""]
StatusLabel(s) == [code |-> 0, label |-> s]

BrokenLink(link, status, type) == [url |-> link, status |-> status, type |-> type]

\* x || y on strings
orElse(x, y) == IF x = "" THEN y ELSE x

\* .then(response => ...): the value is a sequence, empty for null.
thenCallback(link, response) ==
    IF response.status >= 400 /\ response.status < 500
    THEN <<BrokenLink(link, StatusCode(response.status), "Client Error")>>
    ELSE <<>>

\* errorType in the error.response branch
responseErrorType(status) ==
    IF status >= 500 THEN "Server Error"
    ELSE IF status >= 400 /\ status < 500 THEN "Client Error"
    ELSE "Network Issue"

\* The error.request branch without its ETIMEDOUT test.
requestStatusDetailNoEtimedout(error) ==
    IF error.code = "ECONNABORTED" THEN "Timeout"
    ELSE IF error.code = "ENOTFOUND" THEN "DNS Resolution Failed"
    ELSE IF error.code = "ECONNREFUSED" THEN "Connection Refused"
    ELSE IF error.code = "ERR_NETWORK" THEN "Generic Network Error"
    ELSE "Axios Request Error: " \o orElse(error.code, error.message)

\* statusDetail in the error.request branch
requestStatusDetail(error) ==
    IF error.code = "ECONNABORTED" \/ error.code = "ETIMEDOUT" THEN "Timeout"
    ELSE IF error.code = "ENOTFOUND" THEN "DNS Resolution Failed"
    ELSE IF error.code = "ECONNREFUSED" THEN "Connection Refused"
    ELSE IF error.code = "ERR_NETWORK" THEN "Generic Network Error"
    ELSE "Axios Request Error: " \o orElse(error.code, error.message)

\* .catch(error => ...)
catchCallback(link, error) ==
    IF error.isAxiosError
    THEN IF error.hasResponse
         THEN <<BrokenLink(link, StatusCode(error.status),
                           responseErrorType(error.status))>>
         ELSE IF error.hasRequest
         THEN <<BrokenLink(link, StatusLabel(requestStatusDetail(error)),
                           "Network Issue")>>
         ELSE <<BrokenLink(link,
                           StatusLabel(orElse(error.message, "Axios Setup Error")),
                           "Unknown Axios Error")>>
    ELSE <<BrokenLink(link, StatusLabel(orElse(error.message, "Unknown Error")),
                      "Non-Axios Error")>>

\* One element of linkCheckPromises once its request has settled: both
\* callbacks return, so the promise fulfils.
linkCheck(link, net) ==
    LET settled == axiosGet(net) IN
    [state |-> "fulfilled", link |-> link, net |-> net,
     value |-> IF settled.resolved THEN thenCallback(link, settled)
               ELSE catchCallback(link, settled)]

Pending(link) ==
    [state |-> "pending", link |-> link, net |-> Fails("pending"), value |-> <<>>]

\* uniqueLinksToCheck.map(link => axios.get(...).then(...).catch(...))
RECURSIVE mapLinkChecks(_)
mapLinkChecks(links) ==
    IF links = <<>> THEN <<>>
    ELSE <<Pending(Head(links))>> \o mapLinkChecks(Tail(links))

\* A join that resumes as soon as one promise has settled.
anySettled(promises) ==
    promises = <<>> \/ \E i \in 1..Len(promises) : promises[i].state # "pending"

\* Promise.allSettled resolves when no promise is pending any more.
allSettled(promises) ==
    \A i \in 1..Len(promises) : promises[i].state # "pending"

\* The place in linkCheckPromises of the check that settled first (0: none
\* has settled yet).
VARIABLE firstSettled

\* The places 1..n, the one of the first settled check moved to the front.
firstSettledFirst(n) ==
    IF firstSettled = 0 THEN [i \in 1..n |-> i]
    ELSE <<firstSettled>>
         \o SelectSeq([i \in 1..n |-> i], LAMBDA i : i # firstSettled)

RECURSIVE inOrder(_, _)
inOrder(results, order) ==
    IF order = <<>> THEN <<>>
    ELSE results[Head(order)].value \o inOrder(results, Tail(order))

\* The record of the check that settled first is collected first, whatever
\* its place in the list.
collectAsSettled(results) == inOrder(results, firstSettledFirst(Len(results)))

\* linkCheckResults.forEach(result => ...)
RECURSIVE collectBroken(_)
collectBroken(results) ==
    IF results = <<>> THEN <<>>
    ELSE (IF Head(results).state = "fulfilled" THEN Head(results).value
          ELSE <<>>)
         \o collectBroken(Tail(results))

\* brokenLinks.filter(p).length
RECURSIVE countType(_, _)
countType(records, types) ==
    IF records = <<>> THEN 0
    ELSE (IF Head(records).type \in types THEN 1 ELSE 0)
         + countType(Tail(records), types)

\* A filter that forgets the server errors.
clientErrorCount(records) == countType(records, {"Client Error"})

\* link.type === 'Client Error' || link.type === 'Server Error'
confirmedBrokenCount(records) ==
    countType(records, {"Client Error", "Server Error"})

\* link.type === 'Network Issue' || link.type === 'Connection Problem'
networkIssueCount(records) ==
    countType(records, {"Network Issue", "Connection Problem"})

\* ------------------------------------------------------ the primary fetch
PageNets ==
    {Responds(200, 100, 0), Responds(404, 100, 0), Responds(403, 100, 0),
     Responds(500, 100, 0), Fails("ECONNABORTED"), Fails("ENOTFOUND")}

\* axios.get(url, {headers, timeout: 15000}): the default validateStatus
\* accepts 2xx only.
axiosGetPage(net) ==
    IF net.fault # "none"
    THEN Settled(FALSE, TRUE, FALSE, 0, TRUE, net.fault, "transport fault")
    ELSE IF net.status >= 200 /\ net.status < 300
    THEN Settled(TRUE, FALSE, TRUE, net.status, TRUE, "", "")
    ELSE Settled(FALSE, TRUE, TRUE, net.status, TRUE, "ERR_BAD_RESPONSE",
                 "Request failed")

\* errorMessage of the handler's catch (err)
errorMessageOf(err) ==
    IF err.isAxiosError /\ err.code = "ECONNABORTED"
    THEN "Website took too long to respond or could not be reached."
    ELSE IF err.isAxiosError /\ err.hasResponse /\ err.status = 404
    THEN "The URL returned a 404 Not Found error."
    ELSE IF err.isAxiosError /\ err.hasResponse /\ err.status = 403
    THEN "Access to the URL was denied (403 Forbidden)."
    ELSE "Failed to analyze website. Some websites block scraping or URL is invalid."

\* The URIError urlParser.parse(url) throws
parseError == Settled(FALSE, FALSE, FALSE, 0, FALSE, "", "URI malformed")

\* --------------------------------------------------------------- responses
\* res.status(code).json({ error })
ErrorResponse(code, message) ==
    [statusCode |-> code, error |-> message, hasBrokenLinks |-> FALSE,
     brokenLinks |-> <<>>, internalLinks |-> <<>>,
     externalDofollowLinks |-> <<>>, externalNofollowLinks |-> <<>>]

\* res.json({ ..., internalLinks, externalDofollowLinks,
\* externalNofollowLinks, brokenLinks, ... }) of part_000
AnalysisResponse(links, broken) ==
    [statusCode |-> 200, error |-> "", hasBrokenLinks |-> TRUE,
     brokenLinks |-> broken, internalLinks |-> links.internalLinks,
     externalDofollowLinks |-> links.externalDofollowLinks,
     externalNofollowLinks |-> links.externalNofollowLinks]

\* res.json({ ... }) of index.js: the body has no brokenLinks key
IndexResponse(links) ==
    [statusCode |-> 200, error |-> "", hasBrokenLinks |-> FALSE,
     brokenLinks |-> <<>>, internalLinks |-> links.internalLinks,
     externalDofollowLinks |-> links.externalDofollowLinks,
     externalNofollowLinks |-> links.externalNofollowLinks]

\* ------------------------------------------------------------------ inputs
Anchor(href, hasRel, rel) == [href |-> href, hasRel |-> hasRel, rel |-> rel]

Request(hasUrl, url) == [hasUrl |-> hasUrl, url |-> url]

NoUrlRequest == Request(FALSE, Url("", "", "", "", ""))

Files == {"index.js", "part_000"}

\* Pages and anchors of the verification runs.
VerifyRequests ==
    {NoUrlRequest, Request(TRUE, Url("http:", "", "example.com", "", "/"))}

VerifyAnchors ==
    {Anchor(PathHref("/a"), FALSE, <<>>),
     Anchor(PathHref("/b"), FALSE, <<>>),
     Anchor(AbsHref(Url("http:", "", "example.com", "", "/a")), FALSE, <<>>),
     Anchor(AbsHref(Url("https:", "", "other.com", "", "/a")), TRUE, nofollow)}

\* Pages and anchors of the link-extraction runs.
LinkRequests ==
    {Request(TRUE, Url("http:", "", "example.com", "", "/")),
     Request(TRUE, Url("http:", "", "example.com", "8080", "/")),
     Request(TRUE, Url("https:", "", "example.com", "", "/")),
     Request(TRUE, Url("http:", BadAuth, "example.com", "", "/"))}

LinkHrefs ==
    {NoHref, PathHref("/a"),
     AbsHref(Url("http:", "", "example.com", "", "/a")),
     AbsHref(Url("http:", "", "example.com", "8080", "/a")),
     AbsHref(Url("https:", "", "example.com", "", "/a")),
     AbsHref(Url("http:", "", "other.com", "", "/a")),
     AbsHref(Url("http:", BadAuth, "other.com", "", "/a")),
     NoSlashHref("https:", "/a")}

LinkRels ==
    {nofollow, <<"a", " ">> \o ugc, <<"x">> \o sponsored \o <<"x">>,
     <<"U", "G", "C">>, <<"n", "o", "o", "p", "e", "n", "e", "r">>}

LinkAnchors ==
    {Anchor(h, FALSE, <<>>) : h \in LinkHrefs}
    \cup {Anchor(h, TRUE, r) :
            h \in {AbsHref(Url("http:", "", "other.com", "", "/a")),
                   AbsHref(Url("http:", "", "example.com", "8080", "/a"))},
            r \in LinkRels}
    \cup {Anchor(PathHref("/a"), TRUE, nofollow)}

\* Requests and anchors of the response runs: no url, a url the page fetch
\* is issued for, and a url urlParser.parse throws on.
ResponseRequests ==
    {NoUrlRequest,
     Request(TRUE, Url("http:", "", "example.com", "", "/")),
     Request(TRUE, Url("http:", BadAuth, "example.com", "", "/"))}

ResponseAnchors ==
    {Anchor(PathHref("/a"), FALSE, <<>>),
     Anchor(PathHref("/b"), FALSE, <<>>)}

SeqsUpTo(S, n) == UNION {[1..k -> S] : k \in 0..n}

\* ------------------------------------------------------------------- state
VARIABLES
    file,                       \* the source file that serves the request
    request,                    \* req.query
    anchors,                    \* the <a> elements of the fetched page
    pc,                         \* where the handler is suspended
    pageLoaded,                 \* `page` is assigned: the page fetch resolved
    allLinks, internalLinks, externalDofollowLinks, externalNofollowLinks,
    uniqueLinksToCheck,
    requests,                   \* the links axios.get was called for
    linkCheckPromises,
    linkCheckResults,
    brokenLinks,
    confirmedBrokenLinksCount, networkIssueLinksCount,
    responses                   \* what was sent on res

\* axios.get(url, ...) of line 29 was called: the primary page fetch is issued.
VARIABLE pageRequested

linkVars == <<allLinks, internalLinks, externalDofollowLinks, externalNofollowLinks>>
checkVars == <<uniqueLinksToCheck, requests, linkCheckPromises>>
countVars == <<confirmedBrokenLinksCount, networkIssueLinksCount>>
inputVars == <<file, request, anchors>>
vars ==
    <<file, request, anchors, pc, pageLoaded, allLinks, internalLinks,
      externalDofollowLinks, externalNofollowLinks, uniqueLinksToCheck,
      requests, linkCheckPromises, firstSettled, linkCheckResults, brokenLinks,
      confirmedBrokenLinksCount, networkIssueLinksCount, responses,
      pageRequested>>

InitWith(reqs, els, n) ==
    /\ file \in Files
    /\ request \in reqs
    /\ anchors \in SeqsUpTo(els, n)
    /\ pc = "idle"
    /\ pageLoaded = FALSE
    /\ allLinks = <<>>
    /\ internalLinks = <<>>
    /\ externalDofollowLinks = <<>>
    /\ externalNofollowLinks = <<>>
    /\ uniqueLinksToCheck = <<>>
    /\ requests = <<>>
    /\ linkCheckPromises = <<>>
    /\ firstSettled = 0
    /\ linkCheckResults = <<>>
    /\ brokenLinks = <<>>
    /\ confirmedBrokenLinksCount = 0
    /\ networkIssueLinksCount = 0
    /\ responses = <<>>
    /\ pageRequested = FALSE

Init == InitWith(VerifyRequests, VerifyAnchors, MaxAnchors)

InitLinks == InitWith(LinkRequests, LinkAnchors, MaxLinkAnchors)

InitResponses == InitWith(ResponseRequests, ResponseAnchors, MaxResponseAnchors)

\* ----------------------------------------------------------------- actions
\* res.json / res.status(..).json: the handler ends.
send(response) ==
    /\ responses' = Append(responses, response)
    /\ pc' = "done"

\* The handler without the `return` of line 21: it answers 400 and runs on.
AnalyzeNoReturn ==
    /\ pc = "idle"
    /\ IF ~request.hasUrl
       THEN /\ responses' = Append(responses, ErrorResponse(400, "URL is required"))
            /\ pc' = "page"
       ELSE IF ParseThrows(request.url)
       THEN send(ErrorResponse(500, errorMessageOf(parseError)))
       ELSE pc' = "page" /\ UNCHANGED responses
    /\ pageRequested' = (pc' = "page")
    /\ UNCHANGED firstSettled
    /\ UNCHANGED <<inputVars, pageLoaded, linkVars, checkVars, countVars,
                   linkCheckResults, brokenLinks>>

\* Lines 20-29: the handler up to `await axios.get(url, ...)`.
Analyze ==
    /\ pc = "idle"
    /\ IF ~request.hasUrl
       THEN send(ErrorResponse(400, "URL is required"))
       ELSE IF ParseThrows(request.url)
       THEN send(ErrorResponse(500, errorMessageOf(parseError)))
       ELSE pc' = "page" /\ UNCHANGED responses
    /\ pageRequested' = (pc' = "page")
    /\ UNCHANGED firstSettled
    /\ UNCHANGED <<inputVars, pageLoaded, linkVars, checkVars, countVars,
                   linkCheckResults, brokenLinks>>

\* The page fetch rejects: catch (err) answers 500.
PageFetchFails ==
    /\ pc = "page"
    /\ \E net \in PageNets :
         /\ ~axiosGetPage(net).resolved
         /\ send(ErrorResponse(500, errorMessageOf(axiosGetPage(net))))
    /\ UNCHANGED <<firstSettled, pageRequested>>
    /\ UNCHANGED <<inputVars, pageLoaded, linkVars, checkVars, countVars,
                   linkCheckResults, brokenLinks>>

\* The page fetch resolves: the links are extracted; index.js answers at
\* once, part_000 starts one check per unique link and awaits them all.
PageFetchSucceeds ==
    /\ pc = "page"
    /\ \E net \in PageNets : axiosGetPage(net).resolved
    /\ pageLoaded' = TRUE
    /\ LET links == extractLinks(anchors, request.url) IN
         /\ allLinks' = links.allLinks
         /\ internalLinks' = links.internalLinks
         /\ externalDofollowLinks' = links.externalDofollowLinks
         /\ externalNofollowLinks' = links.externalNofollowLinks
         /\ IF file = "index.js"
            THEN /\ send(IndexResponse(links))
                 /\ UNCHANGED checkVars
            ELSE /\ uniqueLinksToCheck' = uniqueLinks(links.allLinks)
                 /\ requests' = uniqueLinks(links.allLinks)
                 /\ linkCheckPromises' = mapLinkChecks(uniqueLinks(links.allLinks))
                 /\ pc' = "links"
                 /\ UNCHANGED responses
    /\ UNCHANGED <<firstSettled, pageRequested>>
    /\ UNCHANGED <<inputVars, countVars, linkCheckResults, brokenLinks>>

\* One link check settles: its .then or .catch callback runs.
LinkCheckSettles ==
    /\ pc = "links"
    /\ \E i \in 1..Len(linkCheckPromises), net \in LinkNets :
         /\ linkCheckPromises[i].state = "pending"
         /\ linkCheckPromises' =
              [linkCheckPromises EXCEPT
                 ![i] = linkCheck(linkCheckPromises[i].link, net)]
         /\ firstSettled' = IF firstSettled = 0 THEN i ELSE firstSettled
         /\ UNCHANGED pageRequested
    /\ UNCHANGED <<inputVars, pc, pageLoaded, linkVars, uniqueLinksToCheck, requests,
                   countVars, linkCheckResults, brokenLinks, responses>>

\* Lines 272-312: the counts and res.json.
respond(broken) ==
    /\ confirmedBrokenLinksCount' = confirmedBrokenCount(broken)
    /\ networkIssueLinksCount' = networkIssueCount(broken)
    /\ send(AnalysisResponse(
              [allLinks |-> allLinks, internalLinks |-> internalLinks,
               externalDofollowLinks |-> externalDofollowLinks,
               externalNofollowLinks |-> externalNofollowLinks], broken))

\* `await Promise.allSettled(linkCheckPromises)` resumes: brokenLinks is
\* filled; then either the keyword request is sent and awaited, or (short
\* content, or no API key) the handler runs on to res.json.
LinkChecksAllSettled ==
    /\ pc = "links"
    /\ allSettled(linkCheckPromises)
    /\ linkCheckResults' = linkCheckPromises
    /\ brokenLinks' = collectBroken(linkCheckPromises)
    /\ \E askKeywords \in BOOLEAN :
         IF askKeywords
         THEN pc' = "keywords" /\ UNCHANGED <<countVars, responses>>
         ELSE respond(collectBroken(linkCheckPromises))
    /\ UNCHANGED <<firstSettled, pageRequested>>
    /\ UNCHANGED <<inputVars, pageLoaded, linkVars, checkVars>>

\* `await fetch(apiUrl, ...)` settles: a rejection is caught.
KeywordFetchSettles ==
    /\ pc = "keywords"
    /\ \E ok \in BOOLEAN :
         IF ok
         THEN pc' = "keywordsJson" /\ UNCHANGED <<countVars, responses>>
         ELSE respond(brokenLinks)
    /\ UNCHANGED <<firstSettled, pageRequested>>
    /\ UNCHANGED <<inputVars, pageLoaded, linkVars, checkVars, linkCheckResults,
                   brokenLinks>>

\* `await response.json()` settles, either way the handler runs on.
KeywordJsonSettles ==
    /\ pc = "keywordsJson"
    /\ respond(brokenLinks)
    /\ UNCHANGED <<firstSettled, pageRequested>>
    /\ UNCHANGED <<inputVars, pageLoaded, linkVars, checkVars, linkCheckResults,
                   brokenLinks>>

Next ==
    \/ Analyze
    \/ PageFetchFails
    \/ PageFetchSucceeds
    \/ LinkCheckSettles
    \/ LinkChecksAllSettled
    \/ KeywordFetchSettles
    \/ KeywordJsonSettles

Spec == Init /\ [][Next]_vars

\* The handler up to the start of the link checks, over the wider set of
\* pages and anchors.
NextLinks ==
    \/ Analyze
    \/ PageFetchFails
    \/ PageFetchSucceeds

SpecLinks == InitLinks /\ [][NextLinks]_vars

\* The handler runs when the request arrives, every network call settles,
\* and the continuation of a settled await runs.
Fairness ==
    /\ WF_vars(Analyze)
    /\ WF_vars(PageFetchFails \/ PageFetchSucceeds)
    /\ WF_vars(LinkCheckSettles)
    /\ WF_vars(LinkChecksAllSettled)
    /\ WF_vars(KeywordFetchSettles)
    /\ WF_vars(KeywordJsonSettles)

\* The whole handler over the three kinds of request, with every network
\* call settling eventually.
SpecResponses == InitResponses /\ [][Next]_vars /\ Fairness

\* ================================================================== claims
Range(seq) == {seq[i] : i \in 1..Len(seq)}

\* How often x occurs in seq.
Count(seq, x) == Cardinality({i \in 1..Len(seq) : seq[i] = x})

\* How many records of brokenLinks carry the url u.
RecordsOf(records, u) == Cardinality({i \in 1..Len(records) : records[i].url = u})

\* The verification phase of part_000 is over: the handler has resumed
\* after `await Promise.allSettled`.
VerificationFinished ==
    /\ file = "part_000"
    /\ pageLoaded
    /\ pc \in {"keywords", "keywordsJson", "done"}

\* The taxonomy of the specification, by the type label the code emits.
Category(type) ==
    CASE type = "Client Error" -> "ClientError"
      [] type = "Server Error" -> "ServerError"
      [] type = "Network Issue" -> "NetworkIssue"
      [] type = "Unknown Axios Error" -> "RequestSetupError"
      [] type = "Non-Axios Error" -> "UnknownError"
      [] OTHER -> "none"

\* C1: the verification phase finishes only after the check of every unique
\* URL has settled, and it yields exactly one outcome per unique URL, whatever
\* the results were and in whatever order they arrived: no check is aborted,
\* skipped or cancelled by the failure of another.
C1_OneOutcomePerUniqueUrl ==
    VerificationFinished =>
        /\ \A i \in 1..Len(linkCheckPromises) :
             linkCheckPromises[i].state # "pending"
        /\ Len(linkCheckResults) = Cardinality(Range(allLinks))
        /\ \A u \in Range(allLinks) :
             Cardinality({i \in 1..Len(linkCheckResults) :
                            /\ linkCheckResults[i].link = u
                            /\ linkCheckResults[i].state # "pending"}) = 1

\* C1 witness: the phase is over with two URLs checked, one of which failed
\* (a network fault) and one of which succeeded.
C1_Witness ==
    /\ VerificationFinished
    /\ Len(linkCheckResults) = 2
    /\ \E i, j \in 1..Len(linkCheckResults) :
         /\ linkCheckResults[i].net.fault = "ENOTFOUND"
         /\ linkCheckResults[j].net = Responds(200, 100, 0)

\* C2: in part_000, every URL the anchors produce, however often, is requested
\* exactly once (no duplicate, no retry), and brokenLinks never holds more
\* than one record with that url.
C2_OneRequestPerUrl ==
    (file = "part_000" /\ pageLoaded) =>
        \A u \in Range(allLinks) :
            /\ Count(requests, u) = 1
            /\ RecordsOf(brokenLinks, u) <= 1

\* C2 witness: a URL two anchors produce has been checked, has failed, and
\* has its record in the answer.
C2_Witness ==
    /\ VerificationFinished
    /\ pc = "done"
    /\ \E u \in Range(allLinks) :
         /\ Count(allLinks, u) = 2
         /\ RecordsOf(brokenLinks, u) = 1

\* C3: once the primary page fetch has succeeded, the request is answered
\* with the success response, and that response includes a brokenLinks array.
C3_AlwaysBrokenLinksArray ==
    (pageLoaded /\ pc = "done") =>
        /\ Len(responses) = 1
        /\ responses[1].statusCode = 200
        /\ responses[1].hasBrokenLinks

\* The link checks that have settled, by their place in linkCheckPromises.
SettledChecks ==
    {i \in 1..Len(linkCheckPromises) : linkCheckPromises[i].state = "fulfilled"}

\* The check reached a final HTTP response (after at most maxRedirects
\* redirects).
ReachedResponse(net) == net.fault = "none" /\ net.redirects <= maxRedirects

\* C4: a link check whose HTTP transaction ends with a final status s yields
\* the record {url, s, ClientError} if 400 <= s < 500 and {url, s,
\* ServerError} if s >= 500, and the record is in brokenLinks.
C4_StatusDecidesCategory ==
    \A i \in SettledChecks :
        LET p == linkCheckPromises[i]
            s == p.net.status
        IN  (ReachedResponse(p.net) /\ s >= 400) =>
              /\ Len(p.value) = 1
              /\ p.value[1].url = p.link
              /\ p.value[1].status = StatusCode(s)
              /\ Category(p.value[1].type) =
                   (IF s < 500 THEN "ClientError" ELSE "ServerError")
              /\ VerificationFinished => p.value[1] \in Range(brokenLinks)

\* C5: a link whose check reaches a final response of status 2xx or 3xx
\* produces no record: its URL is not in brokenLinks, whatever the size of
\* the body.
C5_ReachableNeverBroken ==
    \A i \in SettledChecks :
        LET p == linkCheckPromises[i] IN
        (ReachedResponse(p.net) /\ p.net.status >= 200 /\ p.net.status < 400) =>
            /\ p.value = <<>>
            /\ RecordsOf(brokenLinks, p.link) = 0

\* The status label the taxonomy gives a fault that left a request but no
\* response.
NetworkIssueLabel(net) ==
    CASE net.fault \in {"ECONNABORTED", "ETIMEDOUT"} -> "Timeout"
      [] net.fault = "ENOTFOUND" -> "DNS Resolution Failed"
      [] net.fault = "ECONNREFUSED" -> "Connection Refused"
      [] net.fault = "ERR_NETWORK" -> "Generic Network Error"
      [] net.fault = "ECONNRESET" -> "Axios Request Error: ECONNRESET"
      [] net.fault = "NOCODE" -> "Axios Request Error: socket closed"
      [] net.fault = "none" /\ net.redirects > maxRedirects ->
           "Axios Request Error: ERR_FR_TOO_MANY_REDIRECTS"
      [] OTHER -> "Axios Request Error: ERR_BAD_RESPONSE"

\* C6: every failed link check has exactly one record, of exactly one
\* category of the taxonomy.  A fault with a request but no response is a
\* NetworkIssue labelled Timeout, DNS Resolution Failed, Connection Refused,
\* Generic Network Error, or with the raw code or message; a fault with no
\* request is a RequestSetupError labelled with the fault's message; a fault
\* that is no axios error is an UnknownError.
C6_FaultTaxonomy ==
    \A i \in SettledChecks :
        LET p == linkCheckPromises[i]
            e == axiosGet(p.net)
        IN  ~e.resolved =>
              /\ Len(p.value) = 1
              /\ p.value[1].url = p.link
              /\ Category(p.value[1].type) # "none"
              /\ (e.isAxiosError /\ ~e.hasResponse /\ e.hasRequest) =>
                   /\ Category(p.value[1].type) = "NetworkIssue"
                   /\ p.value[1].status = StatusLabel(NetworkIssueLabel(p.net))
              /\ (e.isAxiosError /\ ~e.hasResponse /\ ~e.hasRequest) =>
                   /\ Category(p.value[1].type) = "RequestSetupError"
                   /\ p.value[1].status = StatusLabel(e.message)
              /\ ~e.isAxiosError =>
                   Category(p.value[1].type) = "UnknownError"

\* C6 witness: one check has timed out on the socket (ETIMEDOUT) and is a
\* NetworkIssue labelled Timeout; another failed before any request and is a
\* RequestSetupError.
C6_Witness ==
    \E i, j \in SettledChecks :
        /\ linkCheckPromises[i].net.fault = "ETIMEDOUT"
        /\ linkCheckPromises[i].value[1].status = StatusLabel("Timeout")
        /\ linkCheckPromises[j].net.fault = "SETUP"
        /\ linkCheckPromises[j].value[1].type = "Unknown Axios Error"

\* The records of brokenLinks whose category is one of cats.
RecordsIn(cats) ==
    {i \in 1..Len(brokenLinks) : Category(brokenLinks[i].type) \in cats}

\* C10: in the answer of part_000, confirmedBrokenLinksCount is the number of
\* ClientError and ServerError records of brokenLinks, networkIssueLinksCount
\* the number of NetworkIssue records; no record is counted twice, none has
\* the type 'Connection Problem', and the records of the other categories
\* are counted in neither.
C10_CountsByCategory ==
    (VerificationFinished /\ pc = "done") =>
        /\ confirmedBrokenLinksCount =
             Cardinality(RecordsIn({"ClientError", "ServerError"}))
        /\ networkIssueLinksCount = Cardinality(RecordsIn({"NetworkIssue"}))
        /\ \A i \in 1..Len(brokenLinks) :
             brokenLinks[i].type # "Connection Problem"
        /\ confirmedBrokenLinksCount + networkIssueLinksCount
             + Cardinality(RecordsIn({"RequestSetupError", "UnknownError"}))
           = Len(brokenLinks)

\* C10 witness: the answer was sent with a ServerError record and a record
\* of a category that neither count includes.
C10_Witness ==
    /\ VerificationFinished
    /\ pc = "done"
    /\ confirmedBrokenLinksCount = 1
    /\ networkIssueLinksCount = 0
    /\ Len(brokenLinks) = 2
    /\ \E i \in 1..Len(brokenLinks) : brokenLinks[i].type = "Server Error"

\* ------------------------------------------------ claims on link extraction
\* The absolute URL the href of anchor k resolves to.
ResolvedHref(k) == resolve(baseUrlOf(request.url), anchors[k].href)

\* Anchor k comes out of resolution and parsing as a link.
IsLink(k) ==
    /\ anchors[k].href.form # "none"
    /\ ~ResolveThrows(anchors[k].href)
    /\ ~ParseThrows(ResolvedHref(k))

Links == {k \in 1..Len(anchors) : IsLink(k)}

\* Scheme, hostname and port are those of the analysed page.
SameSchemeAndHost(u) ==
    /\ u.protocol = request.url.protocol
    /\ u.hostname = request.url.hostname
    /\ u.port = request.url.port

\* The rel value holds one of the three markers (a missing rel holds none).
Unfollowed(k) ==
    /\ anchors[k].hasRel
    /\ \E marker \in {nofollow, ugc, sponsored} : includes(anchors[k].rel, marker)

ListOf(k) ==
    IF SameSchemeAndHost(ResolvedHref(k)) THEN "internalLinks"
    ELSE IF Unfollowed(k) THEN "externalNofollowLinks"
    ELSE "externalDofollowLinks"

\* The anchors that resolve to u and belong in the list named.
LinksIn(list, u) == {k \in Links : ResolvedHref(k) = u /\ ListOf(k) = list}

LinkUrls ==
    {ResolvedHref(k) : k \in Links} \cup Range(internalLinks)
    \cup Range(externalDofollowLinks) \cup Range(externalNofollowLinks)

\* C7: every anchor whose href resolves and parses is in exactly one of the
\* three lists: internalLinks iff its scheme and host are the page's; else
\* externalNofollowLinks iff its rel contains 'nofollow', 'ugc' or
\* 'sponsored' as a case-sensitive substring; else externalDofollowLinks.  So
\* each list holds a URL once per anchor of that class, and nothing else.
C7_ExactlyOneList ==
    pageLoaded =>
        \A u \in LinkUrls :
            /\ Count(internalLinks, u)
                 = Cardinality(LinksIn("internalLinks", u))
            /\ Count(externalNofollowLinks, u)
                 = Cardinality(LinksIn("externalNofollowLinks", u))
            /\ Count(externalDofollowLinks, u)
                 = Cardinality(LinksIn("externalDofollowLinks", u))

\* C7 witness: the page had an external link marked with 'ugc' inside a
\* longer rel value and an external link whose rel is upper case 'UGC'; the
\* first is unfollowed, the second followable.
C7_Witness ==
    /\ pageLoaded
    /\ Len(externalNofollowLinks) = 1
    /\ Len(externalDofollowLinks) = 1
    /\ \E k, m \in Links :
         /\ anchors[k].hasRel /\ anchors[k].rel = <<"a", " ">> \o ugc
         /\ anchors[m].hasRel /\ anchors[m].rel = <<"U", "G", "C">>

\* C8: in part_000, an href that fails to parse is dropped entirely: the
\* links collected for verification are, as a multiset, those of the three lists, and no URL
\* that fails to parse is requested.
C8_UnparsableNeverChecked ==
    (pageLoaded /\ file = "part_000") =>
        /\ \A u \in Range(allLinks) \cup LinkUrls :
             Count(allLinks, u) =
                 Count(internalLinks, u) + Count(externalDofollowLinks, u)
                 + Count(externalNofollowLinks, u)
        /\ \A u \in Range(requests) : ~ParseThrows(u)

\* C9 as claimed: a link with the scheme and hostname of the page is
\* internal, whatever its port.
C9_PortIgnored ==
    pageLoaded =>
        \A k \in Links :
            (/\ ResolvedHref(k).protocol = request.url.protocol
             /\ ResolvedHref(k).hostname = request.url.hostname)
            => Count(internalLinks, ResolvedHref(k)) >= 1

\* C9 amended: the port is part of the host that is compared: a link with
\* the scheme and hostname of the page but another port is not internal; it
\* is in one of the two external lists.
C9_PortCompared ==
    pageLoaded =>
        \A k \in Links :
            (/\ ResolvedHref(k).protocol = request.url.protocol
             /\ ResolvedHref(k).hostname = request.url.hostname
             /\ ResolvedHref(k).port # request.url.port)
            => /\ Count(internalLinks, ResolvedHref(k)) = 0
               /\ Count(externalDofollowLinks, ResolvedHref(k))
                    + Count(externalNofollowLinks, ResolvedHref(k)) >= 1

\* C9 witness: the page http://example.com/ linked to
\* http://example.com:8080/a, which was listed as a followable external link.
C9_Witness ==
    /\ pageLoaded
    /\ request.url.port = ""
    /\ \E k \in Links :
         /\ ResolvedHref(k) = Url("http:", "", "example.com", "8080", "/a")
         /\ ResolvedHref(k) \in Range(externalDofollowLinks)

\* ------------------------------------------------- claims on the answer
\* The place of the first occurrence of x in seq.
FirstIndex(seq, x) ==
    CHOOSE i \in 1..Len(seq) : seq[i] = x /\ \A j \in 1..(i - 1) : seq[j] # x

\* C11: the records of brokenLinks stand in the order in which their URLs
\* first occur among the anchors, and they are exactly the records the checks
\* produced: so the list is the same for the same anchors and per-URL
\* results, in whatever order the checks settled.
C11_OrderOfFirstOccurrence ==
    VerificationFinished =>
        /\ \A i, j \in 1..Len(brokenLinks) :
             i < j => FirstIndex(allLinks, brokenLinks[i].url)
                      < FirstIndex(allLinks, brokenLinks[j].url)
        /\ Range(brokenLinks) =
             {linkCheckResults[i].value[1] :
                i \in {k \in 1..Len(linkCheckResults) :
                         linkCheckResults[k].value # <<>>}}

\* C11 witness: the check of the second link settled before that of the
\* first, both failed, and both records are in the list.
C11_Witness ==
    /\ VerificationFinished
    /\ firstSettled = 2
    /\ Len(brokenLinks) = 2


\* No link check is started: no request for a link was issued.
NoLinkCheckStarted == requests = <<>> /\ linkCheckPromises = <<>>

\* At most one response, and the handler has ended exactly when it is sent.
OneResponseAtMost ==
    /\ Len(responses) <= 1
    /\ (pc = "done") <=> (Len(responses) = 1)

\* Nothing is sent while a link check is pending.
NothingSentWhilePending == responses # <<>> => allSettled(linkCheckPromises)

\* C12 as stated: every /analyze request receives exactly one response; a
\* request without a url gets the 400 error before any fetch is issued; a
\* request whose primary page fetch fails gets the 500 error and no link
\* check is started; every other request gets the success response, sent
\* only after every link check has settled.
C12_OtherwiseSuccess ==
    /\ OneResponseAtMost
    /\ NothingSentWhilePending
    /\ (file = "part_000" /\ pc = "done") =>
         IF ~request.hasUrl
         THEN responses[1].statusCode = 400 /\ ~pageRequested /\ NoLinkCheckStarted
         ELSE IF pageRequested /\ ~pageLoaded
         THEN responses[1].statusCode = 500 /\ NoLinkCheckStarted
         ELSE responses[1].statusCode = 200

\* The answer of the handler by the case of the request, the unparsable
\* url included.
ResponseByCase ==
    /\ OneResponseAtMost
    /\ NothingSentWhilePending
    /\ pc = "done" =>
         IF ~request.hasUrl
         THEN responses[1].statusCode = 400 /\ ~pageRequested /\ NoLinkCheckStarted
         ELSE IF ParseThrows(request.url)
         THEN responses[1].statusCode = 500 /\ ~pageRequested /\ NoLinkCheckStarted
         ELSE IF ~pageLoaded
         THEN pageRequested /\ responses[1].statusCode = 500 /\ NoLinkCheckStarted
         ELSE responses[1].statusCode = 200

\* C12: provided each network call eventually settles, every /analyze
\* request receives exactly one response, never two and never none: a
\* response is eventually sent and what was sent never changes; a request
\* without a url gets the 400 error before any fetch is issued; a request
\* whose url cannot be parsed gets the 500 error before any fetch is issued;
\* a request whose primary page fetch fails gets the 500 error and no link
\* check is started; otherwise the success response is sent, and only after
\* every link check has settled.
C12_ExactlyOneResponse ==
    /\ []ResponseByCase
    /\ [][responses # <<>> => responses' = responses]_vars
    /\ <>(Len(responses) = 1)

\* A success response sent after two link checks.
C12_Witness ==
    /\ Len(responses) = 1
    /\ responses[1].statusCode = 200
    /\ Len(linkCheckPromises) = 2
    /\ allSettled(linkCheckPromises)

====
